---- MODULE Spec2Model ----
(***************************************************************************)
(* Model of the AI booking agent backend (backend/main.py, agent.py,      *)
(* tools.py, database.py).                                                 *)
(*                                                                         *)
(* The specifications of the module:                                       *)
(*   Spec         one websocket session: the receive loop of               *)
(*                websocket_endpoint, its Turn tasks                       *)
(*                (process_and_respond), the done-callback on_task_done,   *)
(*                the Redis transcript and the bookings the Turn's tool    *)
(*                calls make; FairSpec adds the event loop's fairness;     *)
(*   SpecStore    the Booking table under book_slot calls issued by two    *)
(*                sessions, at the granularity of the storage statements   *)
(*                (the SELECT and the INSERT/COMMIT of one call);          *)
(*   SpecAvail    check_availability on the tables book_slot calls build;  *)
(*   SpecTurn     one process_message call, model call by model call and   *)
(*                tool call by tool call, beside another server process;   *)
(*                FairTurn adds the progress of the call's own steps;      *)
(*   SpecHistory  the stored transcript, its saves and loads, and the      *)
(*                lifetime setex gives its key.                            *)
(*                                                                         *)
(* Texts are sequences of string tokens, so that f-strings and             *)
(* "\n".join are concatenations and str.strip is computed.                 *)
(***************************************************************************)
EXTENDS Integers, Sequences, FiniteSets, TLC

VARIABLES
    pc,                      \* position of websocket_endpoint
    connected,               \* the transport is up (the client has not left)
    new_message,             \* main.py:98, the input being handled
    current_message_buffer,  \* main.py:66
    tasks,                   \* every Turn task created; processing_task is the last
    callbacks,               \* done-callbacks scheduled by the loop, FIFO
    redis,                   \* value stored under chat:{session_id}
    sent,                    \* text frames written to the client
    nrecv,                   \* number of receive_text() calls that returned
    modelCalls,              \* number of generate_content calls made
    toolExecs,               \* number of execute_tool calls made
    sendAttempts,            \* number of websocket.send_text calls begun
    bookings,                \* rows of the Booking table
    calls,                   \* SpecStore: the book_slot call of each session
    ncalls,                  \* SpecStore: number of book_slot calls begun
    turn,                    \* SpecTurn: the process_message call in progress
    nrival,                  \* SpecTurn: inserts made by another server process
    avail,                   \* SpecAvail: the last check_availability call
    ttl,                     \* SpecHistory: seconds the stored key has left
    idle,                    \* SpecHistory: seconds since the last save
    loaded,                  \* SpecHistory: the last two get_conversation_history
    nhist                    \* SpecHistory: number of steps taken

vars == <<pc, connected, new_message, current_message_buffer, tasks, callbacks,
          redis, sent, nrecv, modelCalls, toolExecs, sendAttempts, bookings,
          calls, ncalls, turn, nrival, avail, ttl, idle, loaded, nhist>>

\* the state of the specifications other than Spec and SpecStore
auxVars == <<turn, nrival, avail, ttl, idle, loaded, nhist>>

sessionVars == <<pc, connected, new_message, current_message_buffer, tasks,
                 callbacks, redis, sent, nrecv, sendAttempts>>

-----------------------------------------------------------------------------
(* Bounds *)

MaxRecv == 2        \* inputs received on the connection
MaxCalls == 2       \* book_slot calls issued in SpecStore
HourMargin == 1     \* hours tried range over 9-HourMargin .. 16+HourMargin
MaxBook == 3        \* book_slot calls made in SpecAvail
MaxRival == 1       \* inserts of another server process in SpecTurn
MaxHist == 4        \* steps taken in SpecHistory

-----------------------------------------------------------------------------
(* Program constants *)

MAX_TOOL_ITERATIONS == 5

\* agent.py:26
CHAT_HISTORY_TTL == 3600 * 24
FirstHour == 9
LastHour == 16

-----------------------------------------------------------------------------
(* Texts *)

Whitespace == {" ", "\n"}

RECURSIVE LStrip(_)
LStrip(s) ==
    IF s # <<>> /\ Head(s) \in Whitespace THEN LStrip(Tail(s)) ELSE s

RECURSIVE RStrip(_)
RStrip(s) ==
    IF s # <<>> /\ s[Len(s)] \in Whitespace
    THEN RStrip(SubSeq(s, 1, Len(s) - 1))
    ELSE s

\* a strip that removes nothing
Strip_none(s) == s

\* str.strip()
Strip(s) == RStrip(LStrip(s))

\* "\n".join(parts)
RECURSIVE Join(_)
Join(parts) ==
    IF parts = <<>> THEN <<>>
    ELSE IF Len(parts) = 1 THEN parts[1]
    ELSE parts[1] \o <<"\n">> \o Join(Tail(parts))

\* strftime('%H:%M') of an hour-aligned time
HHMM(hour) ==
    IF hour < 10 THEN <<"0", ToString(hour), ":00">> ELSE <<ToString(hour), ":00">>

-----------------------------------------------------------------------------
(* tools.py and database.py *)

\* The date strings tried.  Two of them denote the same day.
DateStrings == {"2026-01-20", "2026-1-20", "2026-01-21", "20/01/2026"}

\* datetime.strptime(date_str, "%Y-%m-%d") raises ValueError
DateValueError(date_str) == date_str \notin {"2026-01-20", "2026-1-20", "2026-01-21"}

\* datetime.strptime(date_str, "%Y-%m-%d").date()
ParseDate(date_str) ==
    CASE date_str = "2026-01-20" -> <<2026, 1, 20>>
      [] date_str = "2026-1-20"  -> <<2026, 1, 20>>
      [] date_str = "2026-01-21" -> <<2026, 1, 21>>
      [] OTHER -> <<0, 0, 0>>

\* datetime.combine(target_date, time(hour=hour))
StartTime(date_str, hour) == [date |-> ParseDate(date_str), hour |-> hour]

InvalidHourMsg == <<"Invalid hour. Please choose between 9 AM (9) and 4 PM (16).">>
InvalidDateMsg == <<"Invalid date format. Please use YYYY-MM-DD format.">>

ConflictMsg(start_time) ==
    <<"Time slot conflicts with existing booking at ">>
        \o HHMM(start_time.hour) \o <<".">>

\* (the check mark that opens the message is left out of the first token)
ConfirmMsg(id, user_name, date_str, hour) ==
    <<"Booking confirmed! Confirmation ID: ", ToString(id), ". ", user_name,
      " booked from ", ToString(hour), ":00 to ", ToString(hour + 1),
      ":00 on ", date_str, ".">>

IntegrityErrorText == <<"UNIQUE constraint failed: booking.start_time">>

StorageErrorMsg == <<"Error booking slot: ">> \o IntegrityErrorText

\* select(Booking).where(Booking.start_time == start_time)
RowsAt(rows, start_time) == {b \in rows : b.start_time = start_time}

\* primary key given to the next inserted row
NextId(rows) ==
    IF rows = {} THEN 1
    ELSE (CHOOSE m \in {b.id : b \in rows} : \A b \in rows : b.id <= m) + 1

\* BookSlotCheck without the existence check of tools.py:80-85
BookSlotCheck_nolookup(rows, user_name, date_str, hour) ==
    IF hour < FirstHour \/ hour > LastHour
    THEN [next |-> "return", result |-> InvalidHourMsg]
    ELSE IF DateValueError(date_str)
    THEN [next |-> "return", result |-> InvalidDateMsg]
    ELSE [next |-> "insert", result |-> <<>>]

\* BookSlotCheck accepting the hour after the last one
BookSlotCheck_hour17(rows, user_name, date_str, hour) ==
    IF hour < FirstHour \/ hour > LastHour + 1
    THEN [next |-> "return", result |-> InvalidHourMsg]
    ELSE IF DateValueError(date_str)
    THEN [next |-> "return", result |-> InvalidDateMsg]
    ELSE IF RowsAt(rows, StartTime(date_str, hour)) # {}
    THEN [next |-> "return", result |-> ConflictMsg(StartTime(date_str, hour))]
    ELSE [next |-> "insert", result |-> <<>>]

\* book_slot up to and including the existence check.  "insert" means the
\* call goes on to db.add/db.commit.
BookSlotCheck(rows, user_name, date_str, hour) ==
    IF hour < FirstHour \/ hour > LastHour
    THEN [next |-> "return", result |-> InvalidHourMsg]
    ELSE IF DateValueError(date_str)
    THEN [next |-> "return", result |-> InvalidDateMsg]
    ELSE IF RowsAt(rows, StartTime(date_str, hour)) # {}
    THEN [next |-> "return", result |-> ConflictMsg(StartTime(date_str, hour))]
    ELSE [next |-> "insert", result |-> <<>>]

\* BookSlotCommit whose rejected insert stays in the table
BookSlotCommit_norollback(rows, user_name, date_str, hour) ==
    [rows |-> rows \cup {[id |-> NextId(rows), user_name |-> user_name,
                          start_time |-> StartTime(date_str, hour)]},
     result |-> IF RowsAt(rows, StartTime(date_str, hour)) # {}
                THEN StorageErrorMsg
                ELSE ConfirmMsg(NextId(rows), user_name, date_str, hour)]

\* db.add(new_booking); db.commit(); db.refresh(new_booking), with the
\* unique constraint of Booking.start_time and the rollback on failure
BookSlotCommit(rows, user_name, date_str, hour) ==
    IF RowsAt(rows, StartTime(date_str, hour)) # {}
    THEN [rows |-> rows, result |-> StorageErrorMsg]
    ELSE [rows |-> rows \cup {[id |-> NextId(rows), user_name |-> user_name,
                               start_time |-> StartTime(date_str, hour)]},
          result |-> ConfirmMsg(NextId(rows), user_name, date_str, hour)]

\* book_slot run without interruption, as inside one Turn
BookSlot(rows, user_name, date_str, hour) ==
    LET chk == BookSlotCheck(rows, user_name, date_str, hour)
    IN  IF chk.next = "return"
        THEN [rows |-> rows, result |-> chk.result]
        ELSE BookSlotCommit(rows, user_name, date_str, hour)

\* ", ".join(parts)
RECURSIVE CommaJoin(_)
CommaJoin(parts) ==
    IF parts = <<>> THEN <<>>
    ELSE IF Len(parts) = 1 THEN parts[1]
    ELSE parts[1] \o <<", ">> \o CommaJoin(Tail(parts))

\* [f"{h}:00-{h + 1}:00" for h in all_hours if h not in booked_hours],
\* all_hours being range(from, 17)
RECURSIVE AvailableSlots(_, _)
AvailableSlots(from, booked_hours) ==
    IF from > LastHour THEN <<>>
    ELSE (IF from \in booked_hours THEN <<>>
          ELSE << <<ToString(from), ":00-", ToString(from + 1), ":00">> >>)
         \o AvailableSlots(from + 1, booked_hours)

\* CheckAvailability without the date bounds of the query of tools.py:22-31
CheckAvailability_anydate(rows, date_str) ==
    IF DateValueError(date_str) THEN InvalidDateMsg
    ELSE LET booked_hours == {b.start_time.hour : b \in rows}
             available_slots == AvailableSlots(FirstHour, booked_hours)
         IN  IF available_slots = <<>>
             THEN <<"No slots available on ", date_str,
                    ". All hours from 9 AM to 5 PM are booked.">>
             ELSE <<"Available slots on ", date_str, ": ">>
                      \o CommaJoin(available_slots)

\* tools.py check_availability
CheckAvailability(rows, date_str) ==
    IF DateValueError(date_str) THEN InvalidDateMsg
    ELSE LET booked_hours ==
                 {b.start_time.hour :
                     b \in {r \in rows : r.start_time.date = ParseDate(date_str)}}
             available_slots == AvailableSlots(FirstHour, booked_hours)
         IN  IF available_slots = <<>>
             THEN <<"No slots available on ", date_str,
                    ". All hours from 9 AM to 5 PM are booked.">>
             ELSE <<"Available slots on ", date_str, ": ">>
                      \o CommaJoin(available_slots)

-----------------------------------------------------------------------------
(* agent.py *)

\* A tool call requested by the model: its name, its arguments and the
\* argument names that are present.
ToolCall(name, keys, user_name, date_str, hour) ==
    [name |-> name, keys |-> keys, user_name |-> user_name,
     date_str |-> date_str, hour |-> hour]

\* f"Error executing {function_name}: {str(e)}" for the KeyError of key
KeyErrorMsg(name, key) == <<"Error executing ", name, ": ", "'", key, "'">>

\* ChatClient.execute_tool: the result string and the table afterwards
ExecuteTool(rows, tc) ==
    IF tc.name = "check_availability"
    THEN IF "date_str" \notin tc.keys
         THEN [rows |-> rows, result |-> KeyErrorMsg(tc.name, "date_str")]
         ELSE [rows |-> rows, result |-> CheckAvailability(rows, tc.date_str)]
    ELSE IF tc.name = "book_slot"
    THEN IF "user_name" \notin tc.keys
         THEN [rows |-> rows, result |-> KeyErrorMsg(tc.name, "user_name")]
         ELSE IF "date_str" \notin tc.keys
         THEN [rows |-> rows, result |-> KeyErrorMsg(tc.name, "date_str")]
         ELSE IF "hour" \notin tc.keys
         THEN [rows |-> rows, result |-> KeyErrorMsg(tc.name, "hour")]
         ELSE BookSlot(rows, tc.user_name, tc.date_str, tc.hour)
    ELSE [rows |-> rows, result |-> <<"Error: Unknown function '", tc.name, "'">>]

\* the for-loop over the parts of one model response (agent.py:293-312)
RECURSIVE ExecuteTools(_, _)
ExecuteTools(rows, tcs) ==
    IF tcs = <<>> THEN [rows |-> rows, results |-> <<>>]
    ELSE LET first == ExecuteTool(rows, Head(tcs))
             rest == ExecuteTools(first.rows, Tail(tcs))
         IN  [rows |-> rest.rows, results |-> <<first.result>> \o rest.results]

\* A model response: it raises, or carries function calls and/or text.
Response(raises, tcs, text) == [raises |-> raises, calls |-> tcs, text |-> text]

\* The behaviour of the model during one Turn: its responses in order, the
\* response `tail` being given to every call after those of `head`.
ModelResponse(script, n) ==
    IF n <= Len(script.head) THEN script.head[n] ELSE script.tail

NoResponse == <<"No Response">>
ModelErrorText == <<"503 UNAVAILABLE">>

\* agent.py:350-352
Apology(error_text) ==
    <<"I apologize, but I encountered an error: ">> \o error_text
        \o <<". Please try again.">>

\* get_conversation_history: an absent key reads as the text "None", which
\* json.loads rejects like any other undeserializable value
GetConversationHistory(stored) ==
    IF stored.kind = "json" THEN stored.msgs ELSE <<>>

\* a save that keeps the last three messages only
SaveConversationHistory_last3(history) ==
    [kind |-> "json",
     msgs |-> IF Len(history) > 3
              THEN SubSeq(history, Len(history) - 2, Len(history))
              ELSE history]

\* save_conversation_history
SaveConversationHistory(history) == [kind |-> "json", msgs |-> history]

\* append_to_history putting the message before the stored ones
AppendToHistory_front(stored, role, content) ==
    SaveConversationHistory(
        <<[role |-> role, content |-> content]>> \o GetConversationHistory(stored))

\* append_to_history
AppendToHistory(stored, role, content) ==
    SaveConversationHistory(
        Append(GetConversationHistory(stored), [role |-> role, content |-> content]))

\* agent.py:267-339: the n-th model call has been made and answered
\* ModelResponse(script, n); `iteration` tool rounds are done so far
RECURSIVE ToolLoop(_, _, _, _, _)
ToolLoop(script, n, iteration, rows, results) ==
    LET response == ModelResponse(script, n)
    IN  IF response.raises
        THEN [raised |-> TRUE, text |-> <<>>, rows |-> rows,
              modelCalls |-> n, results |-> results, iterations |-> iteration]
        ELSE IF iteration < MAX_TOOL_ITERATIONS /\ response.calls # <<>>
        THEN LET ex == ExecuteTools(rows, response.calls)
             IN  ToolLoop(script, n + 1, iteration + 1, ex.rows,
                          results \o ex.results)
        ELSE [raised |-> FALSE, text |-> response.text, rows |-> rows,
              modelCalls |-> n, results |-> results, iterations |-> iteration]

\* ChatClient.process_message
ProcessMessage(stored, rows, user_message, script) ==
    LET loop == ToolLoop(script, 1, 0, rows, <<>>)
        final_response == IF loop.text # <<>> THEN loop.text ELSE NoResponse
    IN  IF loop.raised
        THEN [answer |-> Apology(ModelErrorText), redis |-> stored,
              rows |-> loop.rows, modelCalls |-> loop.modelCalls,
              results |-> loop.results, iterations |-> loop.iterations,
              raised |-> TRUE]
        ELSE [answer |-> final_response,
              redis |-> AppendToHistory(
                            AppendToHistory(stored, "user", user_message),
                            "model", final_response),
              rows |-> loop.rows, modelCalls |-> loop.modelCalls,
              results |-> loop.results, iterations |-> loop.iterations,
              raised |-> FALSE]

-----------------------------------------------------------------------------
(* State of the specifications of one process_message call (SpecTurn), of   *)
(* check_availability (SpecAvail) and of the stored history (SpecHistory),  *)
(* as it is while those specifications are not the one running              *)

\* no process_message call has been made
IdleTurn ==
    [pc |-> "idle", message |-> <<>>, n |-> 0, iteration |-> 0,
     pending |-> <<>>, round |-> <<>>, submitted |-> <<>>, lastText |-> <<>>,
     allCalls |-> TRUE, answer |-> <<>>, raised |-> FALSE,
     startRedis |-> [kind |-> "absent", msgs |-> <<>>]]

NoCheck == [date_str |-> "", result |-> <<>>]

\* get_conversation_history has not been called
NoLoad == [n |-> 0, history |-> <<>>, before |-> <<>>]

AuxInit ==
    /\ turn = IdleTurn
    /\ nrival = 0
    /\ avail = NoCheck
    /\ ttl = 0
    /\ idle = 0
    /\ loaded = NoLoad
    /\ nhist = 0

-----------------------------------------------------------------------------
(* main.py: one websocket session *)

\* The sessions that call book_slot in SpecStore, and a session without a call
Sessions == {1, 2}

IdleCall ==
    [st |-> "idle", user_name |-> "", date_str |-> "", hour |-> 0,
     result |-> <<>>, rowsAtStart |-> {}, rowsAtCommit |-> {}, seq |-> 0]

\* The texts the client sends
Inputs == {<<>>, <<" ">>, <<"a">>, <<"b", " ">>}

Answer1 == <<"You are booked.">>

tcBook == ToolCall("book_slot", {"user_name", "date_str", "hour"}, "alice", "2026-01-20", 9)
tcCheck == ToolCall("check_availability", {"date_str"}, "", "2026-01-20", 0)
tcUnknown == ToolCall("cancel_slot", {"date_str"}, "", "2026-01-20", 0)
tcNoHour == ToolCall("book_slot", {"user_name", "date_str"}, "alice", "2026-01-20", 0)

\* The model behaviours tried for a Turn: a plain answer, a failing call, one
\* round of tool calls before the answer, and a model that always asks for a
\* tool
Scripts ==
    {[head |-> <<>>, tail |-> Response(FALSE, <<>>, Answer1)],
     [head |-> <<>>, tail |-> Response(TRUE, <<>>, <<>>)],
     [head |-> <<Response(FALSE, <<tcCheck, tcBook>>, <<>>)>>,
      tail |-> Response(FALSE, <<>>, Answer1)],
     [head |-> <<>>, tail |-> Response(FALSE, <<tcUnknown>>, <<>>)]}

Greeting ==
    <<"Welcome to AI Booking Agent! How can I help you book a time slot today?">>

\* str(e) of the TypeError raised by main.py:72, which awaits the str that
\* the plain function process_message returns
AwaitTypeErrorText == <<"object str can't be used in 'await' expression">>

\* main.py:82
ErrorFrame(error_text) == <<"Error: ">> \o error_text

\* Task.done()
Done(t) == t.st \in {"done", "cancelled", "failed"}

\* processing_task, 0 standing for None
processing_task == Len(tasks)

Init ==
    /\ pc = "greet"
    /\ connected = TRUE
    /\ new_message = <<>>
    /\ current_message_buffer = <<>>
    /\ tasks = <<>>
    /\ callbacks = <<>>
    /\ redis = [kind |-> "absent", msgs |-> <<>>]
    /\ sent = <<>>
    /\ nrecv = 0
    /\ modelCalls = 0
    /\ toolExecs = 0
    /\ sendAttempts = 0
    /\ bookings = {}
    /\ calls = [c \in Sessions |-> IdleCall]
    /\ ncalls = 0
    /\ AuxInit

\* the client goes away
ClientDisconnect ==
    /\ connected
    /\ connected' = FALSE
    /\ UNCHANGED <<pc, new_message, current_message_buffer, tasks, callbacks,
                   redis, sent, nrecv, modelCalls, toolExecs, sendAttempts,
                   bookings, calls, ncalls>>
    /\ UNCHANGED auxVars

\* main.py:60-62, and 126-142 when the send fails
Greet ==
    /\ pc = "greet"
    /\ IF connected
       THEN /\ sent' = Append(sent, [text |-> Greeting, turn |-> 0])
            /\ pc' = "recv"
       ELSE /\ sent' = sent
            /\ pc' = "closed"
    /\ sendAttempts' = sendAttempts + 1
    /\ UNCHANGED <<connected, new_message, current_message_buffer, tasks,
                   callbacks, redis, nrecv, modelCalls, toolExecs, bookings,
                   calls, ncalls>>
    /\ UNCHANGED auxVars

\* main.py:116-124 with the message m
StartTurn(m) ==
    /\ current_message_buffer' = Append(current_message_buffer, m)
    /\ tasks' = Append(tasks,
                  [text |-> Join(Append(current_message_buffer, m)),
                   st |-> "created", must_cancel |-> FALSE, answer |-> <<>>,
                   raised |-> FALSE, startRedis |-> redis])

\* main.py:98-124: receive_text returns m; the loop runs to its next await
ReceiveText(m) ==
    /\ pc = "recv"
    /\ connected
    /\ nrecv < MaxRecv
    /\ nrecv' = nrecv + 1
    /\ IF Strip(m) = <<>>
       THEN /\ new_message' = m
            /\ UNCHANGED <<pc, current_message_buffer, tasks>>
       ELSE IF processing_task # 0 /\ ~Done(tasks[processing_task])
       THEN /\ tasks' = [tasks EXCEPT ![processing_task].must_cancel = TRUE]
            /\ new_message' = m
            /\ pc' = "awaitCancel"
            /\ UNCHANGED current_message_buffer
       ELSE /\ StartTurn(m)
            /\ new_message' = m
            /\ pc' = "recv"
    /\ UNCHANGED <<connected, callbacks, redis, sent, modelCalls, toolExecs,
                   sendAttempts, bookings, calls, ncalls>>
    /\ UNCHANGED auxVars

\* AfterCancel without the wait of main.py:111-114
AfterCancel_nowait ==
    /\ pc = "awaitCancel"
    /\ StartTurn(new_message)
    /\ pc' = "recv"
    /\ UNCHANGED <<connected, new_message, callbacks, redis, sent, nrecv,
                   modelCalls, toolExecs, sendAttempts, bookings, calls, ncalls>>
    /\ UNCHANGED auxVars

\* main.py:112-124: the cancelled task has ended and its done-callbacks, added
\* before this wait, have run; the loop starts the next Turn
AfterCancel ==
    /\ pc = "awaitCancel"
    /\ Done(tasks[processing_task])
    /\ \A k \in 1..Len(callbacks) : callbacks[k] # processing_task
    /\ StartTurn(new_message)
    /\ pc' = "recv"
    /\ UNCHANGED <<connected, new_message, callbacks, redis, sent, nrecv,
                   modelCalls, toolExecs, sendAttempts, bookings, calls, ncalls>>
    /\ UNCHANGED auxVars

\* main.py:98-100, 126-127, 139-142: receive_text reports the disconnect
ReceiveDisconnect ==
    /\ pc = "recv"
    /\ ~connected
    /\ pc' = "closed"
    /\ UNCHANGED <<connected, new_message, current_message_buffer, tasks,
                   callbacks, redis, sent, nrecv, modelCalls, toolExecs,
                   sendAttempts, bookings, calls, ncalls>>
    /\ UNCHANGED auxVars

\* TaskRun of a task that runs its first step although its cancellation was
\* requested
TaskRun_late(i, script) ==
    /\ tasks[i].st = "created"
    /\ LET out == ProcessMessage(redis, bookings, tasks[i].text, script)
       IN  /\ redis' = out.redis
           /\ bookings' = out.rows
           /\ modelCalls' = modelCalls + out.modelCalls
           /\ toolExecs' = toolExecs + Len(out.results)
           /\ tasks' = [tasks EXCEPT ![i].st = "send_pre",
                                     ![i].answer = out.answer,
                                     ![i].raised = out.raised]
    /\ sendAttempts' = sendAttempts + 1
    /\ UNCHANGED <<pc, connected, new_message, current_message_buffer,
                   callbacks, sent, nrecv, calls, ncalls>>
    /\ UNCHANGED auxVars

\* main.py:70-72 and 80-82: task i runs from its start to its first
\* suspension.  process_message is a plain function, so it runs to its end
\* here; awaiting its str raises TypeError, and the handler begins send_text.
TaskRun(i, script) ==
    /\ tasks[i].st = "created"
    /\ ~tasks[i].must_cancel
    /\ LET out == ProcessMessage(redis, bookings, tasks[i].text, script)
       IN  /\ redis' = out.redis
           /\ bookings' = out.rows
           /\ modelCalls' = modelCalls + out.modelCalls
           /\ toolExecs' = toolExecs + Len(out.results)
           /\ tasks' = [tasks EXCEPT ![i].st = "send_pre",
                                     ![i].answer = out.answer,
                                     ![i].raised = out.raised]
    /\ sendAttempts' = sendAttempts + 1
    /\ UNCHANGED <<pc, connected, new_message, current_message_buffer,
                   callbacks, sent, nrecv, calls, ncalls>>
    /\ UNCHANGED auxVars

\* TaskSendWrite writing the frame twice
TaskSendWrite_twice(i) ==
    /\ tasks[i].st = "send_pre"
    /\ ~tasks[i].must_cancel
    /\ IF connected
       THEN /\ sent' = sent \o <<[text |-> ErrorFrame(AwaitTypeErrorText), turn |-> i],
                                 [text |-> ErrorFrame(AwaitTypeErrorText), turn |-> i]>>
            /\ tasks' = [tasks EXCEPT ![i].st = "send_post"]
            /\ callbacks' = callbacks
       ELSE /\ sent' = sent
            /\ tasks' = [tasks EXCEPT ![i].st = "failed"]
            /\ callbacks' = Append(callbacks, i)
    /\ UNCHANGED <<pc, connected, new_message, current_message_buffer, redis,
                   nrecv, modelCalls, toolExecs, sendAttempts, bookings, calls,
                   ncalls>>
    /\ UNCHANGED auxVars

\* main.py:82: send_text writes the frame, or raises when the client is gone
TaskSendWrite(i) ==
    /\ tasks[i].st = "send_pre"
    /\ ~tasks[i].must_cancel
    /\ IF connected
       THEN /\ sent' = Append(sent, [text |-> ErrorFrame(AwaitTypeErrorText),
                                     turn |-> i])
            /\ tasks' = [tasks EXCEPT ![i].st = "send_post"]
            /\ callbacks' = callbacks
       ELSE /\ sent' = sent
            /\ tasks' = [tasks EXCEPT ![i].st = "failed"]
            /\ callbacks' = Append(callbacks, i)
    /\ UNCHANGED <<pc, connected, new_message, current_message_buffer, redis,
                   nrecv, modelCalls, toolExecs, sendAttempts, bookings, calls,
                   ncalls>>
    /\ UNCHANGED auxVars

\* main.py:82: send_text returns after the write has drained; the task ends
TaskSendReturn(i) ==
    /\ tasks[i].st = "send_post"
    /\ ~tasks[i].must_cancel
    /\ tasks' = [tasks EXCEPT ![i].st = "done"]
    /\ callbacks' = Append(callbacks, i)
    /\ UNCHANGED <<pc, connected, new_message, current_message_buffer, redis,
                   sent, nrecv, modelCalls, toolExecs, sendAttempts, bookings,
                   calls, ncalls>>
    /\ UNCHANGED auxVars

\* main.py:110: the cancellation requested by the loop reaches task i at its
\* next step: before its first step, or inside send_text
TaskCancelled(i) ==
    /\ ~Done(tasks[i])
    /\ tasks[i].must_cancel
    /\ tasks' = [tasks EXCEPT ![i].st = "cancelled"]
    /\ callbacks' = Append(callbacks, i)
    /\ UNCHANGED <<pc, connected, new_message, current_message_buffer, redis,
                   sent, nrecv, modelCalls, toolExecs, sendAttempts, bookings,
                   calls, ncalls>>
    /\ UNCHANGED auxVars

\* on_task_done without the tests of main.py:88-90
on_task_done_always ==
    /\ callbacks # <<>>
    /\ callbacks' = Tail(callbacks)
    /\ current_message_buffer' = <<>>
    /\ UNCHANGED <<pc, connected, new_message, tasks, redis, sent, nrecv,
                   modelCalls, toolExecs, sendAttempts, bookings, calls, ncalls>>
    /\ UNCHANGED auxVars

\* main.py:84-92 for the task at the head of the scheduled callbacks
on_task_done ==
    /\ callbacks # <<>>
    /\ callbacks' = Tail(callbacks)
    /\ IF tasks[Head(callbacks)].st = "done"
       THEN current_message_buffer' = <<>>
       ELSE current_message_buffer' = current_message_buffer
    /\ UNCHANGED <<pc, connected, new_message, tasks, redis, sent, nrecv,
                   modelCalls, toolExecs, sendAttempts, bookings, calls, ncalls>>
    /\ UNCHANGED auxVars

Next ==
    \/ ClientDisconnect
    \/ Greet
    \/ \E m \in Inputs : ReceiveText(m)
    \/ AfterCancel
    \/ ReceiveDisconnect
    \/ \E i \in 1..Len(tasks), script \in Scripts : TaskRun(i, script)
    \/ \E i \in 1..Len(tasks) : TaskSendWrite(i)
    \/ \E i \in 1..Len(tasks) : TaskSendReturn(i)
    \/ \E i \in 1..Len(tasks) : TaskCancelled(i)
    \/ on_task_done

Spec == Init /\ [][Next]_vars

\* The event loop runs every task and callback that is ready, and a send on
\* an open or closed transport ends; the client is free to stay silent or to
\* stay connected.
FairSpec ==
    /\ Spec
    /\ WF_vars(Greet)
    /\ WF_vars(AfterCancel)
    /\ WF_vars(\E i \in 1..Len(tasks), script \in Scripts : TaskRun(i, script))
    /\ WF_vars(\E i \in 1..Len(tasks) : TaskSendWrite(i))
    /\ WF_vars(\E i \in 1..Len(tasks) : TaskSendReturn(i))
    /\ WF_vars(\E i \in 1..Len(tasks) : TaskCancelled(i))
    /\ WF_vars(on_task_done)

-----------------------------------------------------------------------------
(* Properties of the session *)

\* the frames sent by Turn i
FramesOf(i) == {k \in 1..Len(sent) : sent[k].turn = i}

\* the transcript when Turn i has ended and no later Turn has run
RedisAfter(i) == IF i = Len(tasks) THEN redis ELSE tasks[i + 1].startRedis

\* the first Turn of the run of cancelled Turns that ends right before Turn i
RunStart(i) ==
    CHOOSE j \in 1..(i - 1) :
        /\ \A k \in j..(i - 1) : tasks[k].st = "cancelled"
        /\ j = 1 \/ tasks[j - 1].st # "cancelled"

\* C1: at most one Turn task of the session is created and not finished;
\* whenever a Turn task exists, every earlier Turn task has terminated.
C1_TurnsNeverOverlap ==
    \A i \in 1..Len(tasks), j \in 1..Len(tasks) : i < j => Done(tasks[i])

\* C1 witness: a Turn was cancelled and the next Turn is running
C1_Witness ==
    \E i \in 1..Len(tasks) :
        /\ tasks[i].st = "cancelled"
        /\ i < Len(tasks)
        /\ tasks[i + 1].st = "send_pre"

\* C2: no frame after the greeting was sent by a Turn that ends cancelled
C2_CancelledTurnSentNothing ==
    \A k \in 1..Len(sent) :
        sent[k].turn # 0 => tasks[sent[k].turn].st # "cancelled"

\* C3: a Turn that ends cancelled leaves the transcript as it was when the
\* Turn started
C3_CancelledTurnLeavesTranscript ==
    \A i \in 1..Len(tasks) :
        tasks[i].st = "cancelled" => RedisAfter(i) = tasks[i].startRedis

\* C4: when the Turn started over the merged text of a cancelled Turn and the
\* next input completes, the transcript holds one user entry for these inputs,
\* with the merged text, and one frame has been sent for them
C4_PreemptionWithMerge ==
    \A i \in 2..Len(tasks) :
        (tasks[i - 1].st = "cancelled" /\ tasks[i].st = "done" /\ ~tasks[i].raised)
        => /\ \E m \in Inputs : tasks[i].text = tasks[i - 1].text \o <<"\n">> \o m
           /\ GetConversationHistory(RedisAfter(i))
                = GetConversationHistory(tasks[RunStart(i)].startRedis)
                    \o <<[role |-> "user", content |-> tasks[i].text],
                         [role |-> "model", content |-> tasks[i].answer]>>
           /\ Cardinality(UNION {FramesOf(k) : k \in RunStart(i)..i}) = 1

\* C5: a Turn never sends a second frame, a Turn that completes has sent
\* one, frames are sent in the order of the Turns, and every Turn started
\* eventually completes with its frame sent unless it is superseded
\* (cancelled) or the client has gone (its send fails)
C5_OneResponsePerBatch ==
    /\ [](\A i \in 1..Len(tasks) :
            /\ Cardinality(FramesOf(i)) <= 1
            /\ tasks[i].st = "done" => Cardinality(FramesOf(i)) = 1
            /\ tasks[i].st = "failed" => ~connected)
    /\ [](\A k \in 1..Len(sent), l \in 1..Len(sent) :
            k < l => sent[k].turn < sent[l].turn)
    /\ \A i \in 1..MaxRecv :
          (Len(tasks) >= i) ~> (Len(tasks) >= i /\ Done(tasks[i]))

\* C5 witness: a Turn that was not superseded has completed with its frame
C5_Witness ==
    \E i \in 1..Len(tasks) :
        tasks[i].st = "done" /\ Cardinality(FramesOf(i)) = 1

\* C6: the frame of a Turn that completes is the answer process_message
\* returned, and the buffer is empty once its done-callback has run
C6_FrameIsTheAnswer ==
    \A i \in 1..Len(tasks) :
        tasks[i].st = "done"
        => /\ FramesOf(i) # {}
           /\ \A k \in FramesOf(i) : sent[k].text = tasks[i].answer
           /\ (i = Len(tasks) /\ callbacks = <<>>) => current_message_buffer = <<>>

\* C7: once the connection loop has ended, no model call, no tool execution,
\* no transcript write and no send is made
C7_NoWorkAfterClose ==
    [][pc = "closed" =>
          /\ modelCalls' = modelCalls
          /\ toolExecs' = toolExecs
          /\ redis' = redis
          /\ sendAttempts' = sendAttempts]_vars

\* the text is empty or made of whitespace only
Blank(text) == \A k \in 1..Len(text) : text[k] \in Whitespace

\* C15: the step that receives an empty or whitespace-only input changes
\* neither the buffer nor the tasks (no Turn cancelled, replaced or started)
\* nor the controller's position, sends no frame and schedules nothing
C15_BlankInputChangesNothing ==
    [][(nrecv' # nrecv /\ Blank(new_message'))
         => /\ current_message_buffer' = current_message_buffer
            /\ tasks' = tasks
            /\ callbacks' = callbacks
            /\ pc' = pc
            /\ sent' = sent
            /\ redis' = redis
            /\ bookings' = bookings]_vars

\* C15 witness: the second input was blank and arrived while the Turn of the
\* first was running; the Turn runs on uncancelled over the same buffer
C15_Witness ==
    /\ nrecv = 2
    /\ Blank(new_message)
    /\ Len(tasks) = 1
    /\ tasks[1].st = "send_pre"
    /\ ~tasks[1].must_cancel
    /\ current_message_buffer # <<>>
    /\ Join(current_message_buffer) = tasks[1].text

\* the texts of the exceptions raised inside the program
ExceptionTexts == {AwaitTypeErrorText, ModelErrorText, IntegrityErrorText}

\* the text e occurs in the text t
Occurs(e, t) ==
    \E k \in 0..(Len(t) - Len(e)) : SubSeq(t, k + 1, k + Len(e)) = e

\* C16: no frame sent to the client contains the text of an internal
\* exception
C16_NoExceptionTextInFrames ==
    \A k \in 1..Len(sent), e \in ExceptionTexts : ~Occurs(e, sent[k].text)

\* the step is a run of the done-callback
CallbackStep == callbacks # <<>> /\ callbacks' = Tail(callbacks)

\* C18: the done-callback empties the buffer exactly when its task was not
\* cancelled and raised nothing, and otherwise leaves the buffer as it is;
\* the inputs in the buffer are always those of the Turn started last, so
\* the callback removes no input over which no Turn has been started
C18_CallbackClearsOnlyOnSuccess ==
    /\ [][CallbackStep
            => IF tasks[Head(callbacks)].st \notin {"cancelled", "failed"}
               THEN current_message_buffer' = <<>>
               ELSE current_message_buffer' = current_message_buffer]_vars
    /\ [](current_message_buffer # <<>>
            => /\ tasks # <<>>
               /\ Join(current_message_buffer) = tasks[Len(tasks)].text)

\* C18 witness: the second input arrived between the end of the first Turn
\* and its callback; the callback then emptied the buffer, after the second
\* Turn had been started over both inputs
C18_Witness ==
    /\ Len(tasks) = 2
    /\ tasks[1].st = "done"
    /\ tasks[2].st = "created"
    /\ ~tasks[2].must_cancel
    /\ callbacks = <<>>
    /\ current_message_buffer = <<>>

\* the cancellation of a Turn that has not ended has been requested
CancelRequested == \E i \in 1..Len(tasks) : tasks[i].must_cancel /\ ~Done(tasks[i])

RECURSIVE NumInputs(_)
NumInputs(text) ==
    IF text = <<>> THEN 1
    ELSE (IF Head(text) = "\n" THEN 1 ELSE 0) + NumInputs(Tail(text))

\* the number of inputs accepted since the last Turn that completed without
\* cancellation, when Turn j is started
RECURSIVE InputsSinceCompleted(_)
InputsSinceCompleted(j) ==
    IF j = 1 \/ tasks[j - 1].st = "done" THEN 1
    ELSE 1 + InputsSinceCompleted(j - 1)

\* C21: the text of every Turn is made of the inputs accepted since the
\* last Turn that completed without cancellation, and of no input of a Turn
\* that completed and sent its response
C21_TurnTextIsTheInputsSinceCompletion ==
    \A j \in 1..Len(tasks) : NumInputs(tasks[j].text) = InputsSinceCompleted(j)

\* C22: the stored transcript has even length and is made of pairs, a user
\* message with the text of a Turn followed by the agent message with the
\* answer of that Turn
C22_TranscriptIsPairs ==
    /\ redis.kind \in {"absent", "json"}
    /\ Len(redis.msgs) % 2 = 0
    /\ \A k \in 1..Len(redis.msgs) :
          k % 2 = 1 =>
             /\ redis.msgs[k].role = "user"
             /\ redis.msgs[k + 1].role = "model"
             /\ \E i \in 1..Len(tasks) :
                   /\ tasks[i].text = redis.msgs[k].content
                   /\ tasks[i].answer = redis.msgs[k + 1].content
                   /\ ~tasks[i].raised

\* C22 witness: two Turns have ended, one of them after tool calls, and the
\* transcript holds their two pairs
C22_Witness ==
    /\ Len(tasks) = 2
    /\ \A i \in 1..2 : Done(tasks[i])
    /\ toolExecs > 0
    /\ redis.kind = "json"
    /\ Len(redis.msgs) = 4

-----------------------------------------------------------------------------
(* SpecStore: book_slot calls of two sessions against the shared table *)

UserNames == {"alice", "bob"}
Hours == ((FirstHour - HourMargin)..FirstHour) \cup (LastHour..(LastHour + HourMargin))

InitStore ==
    /\ bookings = {}
    /\ calls = [c \in Sessions |-> IdleCall]
    /\ ncalls = 0
    /\ AuxInit
    /\ pc = "closed"
    /\ connected = FALSE
    /\ new_message = <<>>
    /\ current_message_buffer = <<>>
    /\ tasks = <<>>
    /\ callbacks = <<>>
    /\ redis = [kind |-> "absent", msgs |-> <<>>]
    /\ sent = <<>>
    /\ nrecv = 0
    /\ modelCalls = 0
    /\ toolExecs = 0
    /\ sendAttempts = 0

\* tools.py:68-85: session c calls book_slot; the call returns at once on a
\* validation failure or a conflict, and otherwise stands before its insert
BeginBookSlot(c, user_name, date_str, hour) ==
    /\ calls[c].st \in {"idle", "returned"}
    /\ ncalls < MaxCalls
    /\ LET chk == BookSlotCheck(bookings, user_name, date_str, hour)
       IN  calls' = [calls EXCEPT ![c] =
                [st |-> IF chk.next = "return" THEN "returned" ELSE "insert",
                 user_name |-> user_name, date_str |-> date_str, hour |-> hour,
                 result |-> chk.result, rowsAtStart |-> bookings,
                 rowsAtCommit |-> bookings, seq |-> ncalls + 1]]
    /\ ncalls' = ncalls + 1
    /\ UNCHANGED <<bookings, modelCalls, toolExecs, sessionVars>>
    /\ UNCHANGED auxVars

\* tools.py:87-103: the insert of session c's call commits or is rejected by
\* the unique constraint and rolled back
CommitBookSlot(c) ==
    /\ calls[c].st = "insert"
    /\ LET r == BookSlotCommit(bookings, calls[c].user_name, calls[c].date_str,
                               calls[c].hour)
       IN  /\ bookings' = r.rows
           /\ calls' = [calls EXCEPT ![c].st = "returned",
                                     ![c].result = r.result,
                                     ![c].rowsAtCommit = bookings]
    /\ UNCHANGED <<ncalls, modelCalls, toolExecs, sessionVars>>
    /\ UNCHANGED auxVars

NextStore ==
    \/ \E c \in Sessions, u \in UserNames, d \in DateStrings, h \in Hours :
          BeginBookSlot(c, u, d, h)
    \/ \E c \in Sessions : CommitBookSlot(c)

SpecStore == InitStore /\ [][NextStore]_vars

-----------------------------------------------------------------------------
(* Properties of the Booking table *)

ValidCall(k) ==
    /\ ~DateValueError(k.date_str)
    /\ k.hour >= FirstHour
    /\ k.hour <= LastHour

CallStart(k) == StartTime(k.date_str, k.hour)

\* session c's call returns in this step
Returns(c) == calls'[c] # calls[c] /\ calls'[c].st = "returned"

\* C8: of two book_slot calls of two sessions for one free slot, in any
\* interleaving, one returns the confirmation and the other the conflict
\* message; no two rows share a start_time
C8_OneConfirmationOneConflict ==
    /\ \A b1 \in bookings, b2 \in bookings :
           b1.start_time = b2.start_time => b1 = b2
    /\ \A c \in Sessions, d \in Sessions :
           (/\ c # d
            /\ ncalls = 2
            /\ calls[c].st = "returned"
            /\ calls[d].st = "returned"
            /\ ValidCall(calls[c])
            /\ ValidCall(calls[d])
            /\ CallStart(calls[c]) = CallStart(calls[d]))
           => \E w \in {c, d}, l \in {c, d} :
                 /\ w # l
                 /\ \E b \in bookings :
                       calls[w].result = ConfirmMsg(b.id, calls[w].user_name,
                                             calls[w].date_str, calls[w].hour)
                 /\ calls[l].result = ConflictMsg(CallStart(calls[l]))

\* C9: a book_slot call for a valid date and an hour in 9..16 whose slot is
\* free for the length of the call inserts exactly one row, with an id no
\* other row has, and returns the confirmation with that id; a call made when
\* the slot is booked returns the conflict message and changes no row; ids
\* are unique in the table
C9_BookOnceThenConflict ==
    /\ [](\A b1 \in bookings, b2 \in bookings : b1.id = b2.id => b1 = b2)
    /\ [][\A c \in Sessions :
            (Returns(c) /\ ValidCall(calls'[c]))
            => LET k == calls'[c]
               IN  /\ (/\ RowsAt(k.rowsAtStart, CallStart(k)) = {}
                       /\ RowsAt(bookings, CallStart(k)) = {})
                      => \E b \in bookings' :
                            /\ b \notin bookings
                            /\ bookings' = bookings \cup {b}
                            /\ b.start_time = CallStart(k)
                            /\ b.user_name = k.user_name
                            /\ \A o \in bookings : o.id # b.id
                            /\ k.result = ConfirmMsg(b.id, k.user_name,
                                                     k.date_str, k.hour)
                   /\ RowsAt(k.rowsAtStart, CallStart(k)) # {}
                      => /\ k.result = ConflictMsg(CallStart(k))
                         /\ bookings' = bookings]_vars

\* C9 witness: a call was confirmed and a later call of the other session,
\* by another user, for the same slot got the conflict message
C9_Witness ==
    \E c \in Sessions, d \in Sessions :
        /\ c # d
        /\ calls[c].st = "returned"
        /\ calls[d].st = "returned"
        /\ calls[c].seq < calls[d].seq
        /\ calls[c].user_name # calls[d].user_name
        /\ calls[c].result = ConfirmMsg(1, calls[c].user_name,
                                        calls[c].date_str, calls[c].hour)
        /\ calls[d].result = ConflictMsg(CallStart(calls[c]))
        /\ CallStart(calls[c]) = CallStart(calls[d])
        /\ Cardinality(bookings) = 1

\* C10: a book_slot call with an hour outside 9..16 returns the invalid-hour
\* message, whatever the name and the date string, and changes no row; every
\* row starts at an hour in 9..16
C10_HourOutOfRange ==
    /\ [](\A b \in bookings :
            b.start_time.hour >= FirstHour /\ b.start_time.hour <= LastHour)
    /\ [][\A c \in Sessions :
            (Returns(c) /\ (calls'[c].hour < FirstHour \/ calls'[c].hour > LastHour))
            => /\ calls'[c].result = InvalidHourMsg
               /\ bookings' = bookings]_vars

\* C10 witness: a call with the hour after the last one and an unparsable
\* date returned the invalid-hour message while the table had a row
C10_Witness ==
    \E c \in Sessions :
        /\ calls[c].st = "returned"
        /\ calls[c].hour > LastHour
        /\ DateValueError(calls[c].date_str)
        /\ calls[c].result = InvalidHourMsg
        /\ bookings # {}

-----------------------------------------------------------------------------
(* SpecAvail: check_availability on the tables that book_slot calls build *)

\* the session and the calls of SpecStore, not running
SessionOff ==
    /\ pc = "closed"
    /\ connected = FALSE
    /\ new_message = <<>>
    /\ current_message_buffer = <<>>
    /\ tasks = <<>>
    /\ callbacks = <<>>
    /\ sent = <<>>
    /\ nrecv = 0
    /\ modelCalls = 0
    /\ toolExecs = 0
    /\ sendAttempts = 0
    /\ calls = [c \in Sessions |-> IdleCall]
    /\ ncalls = 0

\* the table after book_slot calls for the hours of hs, in that order
RECURSIVE BookAll(_, _, _, _)
BookAll(rows, user_name, date_str, hs) ==
    IF hs = <<>> THEN rows
    ELSE BookAll(BookSlot(rows, user_name, date_str, Head(hs)).rows,
                 user_name, date_str, Tail(hs))

\* The table is empty, or holds the booking of another day, or the bookings
\* of five hours of the day made out of order.
InitAvail ==
    /\ SessionOff
    /\ AuxInit
    /\ redis = [kind |-> "absent", msgs |-> <<>>]
    /\ bookings \in {{},
                     BookAll({}, "bob", "2026-01-21", <<FirstHour>>),
                     BookAll({}, "bob", "2026-01-20", <<13, 9, 11, 10, 12>>)}

\* a book_slot call of a Turn (tools.py:55-103)
AvailBook(user_name, date_str, hour) ==
    /\ ncalls < MaxBook
    /\ ncalls' = ncalls + 1
    /\ bookings' = BookSlot(bookings, user_name, date_str, hour).rows
    /\ avail' = NoCheck
    /\ UNCHANGED <<sessionVars, modelCalls, toolExecs, calls, turn,
                   nrival, ttl, idle, loaded, nhist>>

\* a check_availability call (tools.py:7-52)
AvailCheck(date_str) ==
    /\ avail' = [date_str |-> date_str,
                 result |-> CheckAvailability(bookings, date_str)]
    /\ UNCHANGED <<sessionVars, modelCalls, toolExecs, bookings, calls, ncalls,
                   turn, nrival, ttl, idle, loaded, nhist>>

NextAvail ==
    \/ \E h \in FirstHour..LastHour : AvailBook("alice", "2026-01-20", h)
    \/ \E d \in DateStrings : AvailCheck(d)

SpecAvail == InitAvail /\ [][NextAvail]_vars

\* the hours of 9..16 at which no row of the day of date_str starts
FreeHours(rows, date_str) ==
    {h \in FirstHour..LastHour :
        \A b \in rows : b.start_time # StartTime(date_str, h)}

\* the places of a result text where a slot "h:00-h+1:00" is written
SlotPlaces(result) ==
    {k \in 1..Len(result) : k + 3 <= Len(result) /\ result[k + 1] = ":00-"}

\* the slot written at place k of the result starts at hour h
SlotAt(result, k, h) ==
    /\ result[k] = ToString(h)
    /\ result[k + 2] = ToString(h + 1)
    /\ result[k + 3] = ":00"

\* C11: for a valid date, check_availability lists exactly the hours of
\* 9..16 that are free on that day, in ascending order whatever the order of
\* the bookings, and nothing else; it returns the fully-booked message
\* exactly when no hour is free; it does not change the table
C11_AvailabilityIsTheFreeHours ==
    /\ []((avail # NoCheck /\ ~DateValueError(avail.date_str))
          => LET free == FreeHours(bookings, avail.date_str)
                 places == SlotPlaces(avail.result)
             IN  /\ \A h \in free : \E k \in places : SlotAt(avail.result, k, h)
                 /\ \A k \in places : \E h \in free : SlotAt(avail.result, k, h)
                 /\ \A k \in places, l \in places, g \in free, h \in free :
                       (k < l /\ SlotAt(avail.result, k, g)
                              /\ SlotAt(avail.result, l, h)) => g < h
                 /\ Cardinality(places) = Cardinality(free)
                 /\ free # {} =>
                       /\ SubSeq(avail.result, 1, 3)
                            = <<"Available slots on ", avail.date_str, ": ">>
                       /\ Len(avail.result) = 5 * Cardinality(free) + 2
                 /\ (free = {}) <=>
                       (avail.result
                          = <<"No slots available on ", avail.date_str,
                              ". All hours from 9 AM to 5 PM are booked.">>))
    /\ [][avail' # avail /\ avail' # NoCheck => bookings' = bookings]_vars

\* C11 witness: the eight hours of a day are booked, in some order, and the
\* check of that day made afterwards returned the fully-booked message
C11_Witness ==
    /\ FreeHours(bookings, "2026-1-20") = {}
    /\ \E a \in bookings, b \in bookings :
          a.start_time.hour < b.start_time.hour /\ a.id > b.id
    /\ avail.date_str = "2026-1-20"
    /\ avail.result = <<"No slots available on ", "2026-1-20",
                        ". All hours from 9 AM to 5 PM are booked.">>

-----------------------------------------------------------------------------
(* SpecTurn: one process_message call, step by step, beside another server *)
(* process that inserts into the same table                                 *)

tcBadDate == ToolCall("check_availability", {"date_str"}, "", "20/01/2026", 0)
tcBadHour == ToolCall("book_slot", {"user_name", "date_str", "hour"}, "alice", "2026-01-20", 17)

\* the responses the model gives to a generate_content call: it raises, or
\* answers in text, or answers nothing, or requests tool calls without or
\* with a text part beside them
TurnResponses ==
    {Response(TRUE, <<>>, <<>>),
     Response(FALSE, <<>>, Answer1),
     Response(FALSE, <<>>, <<>>),
     Response(FALSE, <<tcCheck, tcBook>>, <<>>),
     Response(FALSE, <<tcUnknown, tcNoHour>>, <<>>),
     Response(FALSE, <<tcBadDate, tcBadHour>>, <<>>),
     Response(FALSE, <<tcCheck>>, <<"Let me check.">>)}

\* the texts process_message is called with
TurnInputs == {m \in Inputs : Strip(m) # <<>>}

\* the values found under the session's key when a Turn starts
StoredValues ==
    {[kind |-> "absent", msgs |-> <<>>],
     [kind |-> "corrupt", msgs |-> <<>>],
     SaveConversationHistory(<<[role |-> "user", content |-> <<"hi">>],
                               [role |-> "model", content |-> <<"Hello!">>]>>)}

\* the variables no step of SpecTurn changes
turnFrame == <<pc, connected, new_message, current_message_buffer, tasks,
               callbacks, sent, nrecv, sendAttempts, calls, ncalls, avail, ttl,
               idle, loaded, nhist>>

InitTurn ==
    /\ SessionOff
    /\ AuxInit
    /\ redis \in StoredValues
    /\ bookings = {}

\* agent.py:253-265: process_message is entered with user_message, loads
\* the history and builds the contents of the first model call
TurnBegin(user_message) ==
    /\ turn.pc = "idle"
    /\ turn' = [IdleTurn EXCEPT !.pc = "model", !.message = user_message,
                                !.startRedis = redis]
    /\ UNCHANGED <<turnFrame, redis, bookings, modelCalls, toolExecs, nrival>>

\* a loop test that lets a sixth round in
WithinCap_late(iteration) == iteration <= MAX_TOOL_ITERATIONS

\* agent.py:283, the test of the while loop
WithinCap(iteration) == iteration < MAX_TOOL_ITERATIONS

\* agent.py:267-277 and 317-327, then 283-348 up to the next call of a tool
\* or of the model: generate_content returns response or raises; a call
\* after a round of tools ends that round (iteration += 1)
ModelResponds(response) ==
    /\ turn.pc = "model"
    /\ modelCalls' = modelCalls + 1
    /\ LET iteration == IF turn.n = 0 THEN 0 ELSE turn.iteration + 1
           final_response ==
               IF response.text # <<>> THEN response.text ELSE NoResponse
       IN  IF response.raises
           THEN /\ turn' = [turn EXCEPT !.pc = "finished", !.n = turn.n + 1,
                                        !.answer = Apology(ModelErrorText),
                                        !.raised = TRUE]
                /\ redis' = redis
           ELSE IF WithinCap(iteration) /\ response.calls # <<>>
           THEN /\ turn' = [turn EXCEPT !.pc = "tools", !.n = turn.n + 1,
                                        !.iteration = iteration,
                                        !.pending = response.calls,
                                        !.round = <<>>,
                                        !.lastText = response.text]
                /\ redis' = redis
           ELSE /\ turn' = [turn EXCEPT !.pc = "finished", !.n = turn.n + 1,
                                        !.iteration = iteration,
                                        !.lastText = response.text,
                                        !.allCalls = turn.allCalls
                                                      /\ response.calls # <<>>,
                                        !.answer = final_response]
                /\ redis' = AppendToHistory(
                                AppendToHistory(redis, "user", turn.message),
                                "model", final_response)
    /\ UNCHANGED <<turnFrame, bookings, toolExecs, nrival>>

\* the Turn after the result of the tool call at the head of pending
AfterTool(result) ==
    [turn EXCEPT !.pending = Tail(turn.pending),
                 !.round = Append(turn.round, result),
                 !.submitted = IF Len(turn.pending) = 1
                               THEN Append(turn.round, result)
                               ELSE turn.submitted,
                 !.pc = IF Len(turn.pending) = 1 THEN "model" ELSE "tools"]

\* the call is a book_slot call with its three arguments
CallsBookSlot(tc) ==
    tc.name = "book_slot" /\ {"user_name", "date_str", "hour"} \subseteq tc.keys

\* agent.py:293-312: execute_tool for the next function call of the
\* response; a book_slot call that passes its checks stops before its insert
ToolStep ==
    /\ turn.pc = "tools"
    /\ LET tc == Head(turn.pending)
           chk == BookSlotCheck(bookings, tc.user_name, tc.date_str, tc.hour)
       IN  IF CallsBookSlot(tc) /\ chk.next = "insert"
           THEN /\ turn' = [turn EXCEPT !.pc = "insert"]
                /\ toolExecs' = toolExecs
           ELSE /\ turn' = AfterTool(ExecuteTool(bookings, tc).result)
                /\ toolExecs' = toolExecs + 1
    /\ UNCHANGED <<turnFrame, redis, bookings, modelCalls, nrival>>

\* tools.py:87-103 inside execute_tool: the insert commits, or is rejected
\* and rolled back
ToolCommit ==
    /\ turn.pc = "insert"
    /\ LET tc == Head(turn.pending)
           r == BookSlotCommit(bookings, tc.user_name, tc.date_str, tc.hour)
       IN  /\ bookings' = r.rows
           /\ turn' = AfterTool(r.result)
    /\ toolExecs' = toolExecs + 1
    /\ UNCHANGED <<turnFrame, redis, modelCalls, nrival>>

\* a book_slot call of another server process on the same table
RivalBook(hour) ==
    /\ nrival < MaxRival
    /\ nrival' = nrival + 1
    /\ bookings' = BookSlot(bookings, "bob", "2026-01-20", hour).rows
    /\ UNCHANGED <<turnFrame, redis, modelCalls, toolExecs, turn>>

NextTurn ==
    \/ \E m \in TurnInputs : TurnBegin(m)
    \/ \E response \in TurnResponses : ModelResponds(response)
    \/ ToolStep
    \/ ToolCommit
    \/ \E h \in {FirstHour, FirstHour + 1} : RivalBook(h)

SpecTurn == InitTurn /\ [][NextTurn]_vars

\* process_message makes no await: its statements follow one another, and a
\* generate_content call returns or raises
FairTurn ==
    /\ SpecTurn
    /\ WF_vars(\E response \in TurnResponses : ModelResponds(response))
    /\ WF_vars(ToolStep)
    /\ WF_vars(ToolCommit)

-----------------------------------------------------------------------------
(* Properties of a Turn *)

TranscriptBefore ==
    IF turn.startRedis.kind = "json" THEN turn.startRedis.msgs ELSE <<>>

\* C13: when a model call raised, the Turn returns the apology and the
\* transcript is the one before the Turn followed by the user's message and
\* the apology
C13_FailedTurnIsRecorded ==
    (turn.pc = "finished" /\ turn.raised)
       => /\ turn.answer = <<"I apologize, but I encountered an error: ">>
                              \o ModelErrorText \o <<". Please try again.">>
          /\ redis.kind = "json"
          /\ redis.msgs = TranscriptBefore
                            \o <<[role |-> "user", content |-> turn.message],
                                 [role |-> "model", content |-> turn.answer]>>

\* C14: after a Turn that ended without a failure the transcript is the one
\* before the Turn followed by the user message and the agent message with
\* the answer, whatever the number of tool rounds; nothing is stored before
\* the Turn ends
C14_TranscriptGainsTwoMessages ==
    /\ []((turn.pc = "finished" /\ ~turn.raised)
            => /\ redis.kind = "json"
               /\ redis.msgs
                    = TranscriptBefore
                        \o <<[role |-> "user", content |-> turn.message],
                             [role |-> "model", content |-> turn.answer]>>)
    /\ [][turn'.pc # "finished" => redis' = redis]_vars

\* C14 witness: a Turn over a stored transcript ran two rounds of tools
\* and ended with the model's text
C14_Witness ==
    /\ turn.pc = "finished"
    /\ ~turn.raised
    /\ turn.iteration = 2
    /\ toolExecs >= 3
    /\ turn.startRedis.kind = "json"
    /\ turn.answer = Answer1
    /\ Len(redis.msgs) = 4

\* the step ends an execute_tool call
ToolDone == toolExecs' # toolExecs

\* the result string of the execute_tool call the step ends
ToolResult == turn'.round[Len(turn'.round)]

\* C20: an execute_tool call for an unknown tool, with a missing argument,
\* an unparsable date or an hour out of range, or whose insert is rejected
\* by the table, ends with its result string and the table as it was before
\* the attempt; no execute_tool call ends the Turn: the Turn goes on to the
\* next call and, after the last, to the model with the results of the
\* round; only a model call makes a Turn fail
C20_ToolFailuresAreData ==
    /\ [][ToolDone =>
            LET tc == Head(turn.pending)
            IN  /\ tc.name \notin {"check_availability", "book_slot"}
                     => /\ ToolResult = <<"Error: Unknown function '", tc.name, "'">>
                        /\ bookings' = bookings
                /\ (tc.name = "book_slot" /\ "hour" \notin tc.keys
                      /\ {"user_name", "date_str"} \subseteq tc.keys)
                     => /\ ToolResult = <<"Error executing ", "book_slot", ": ",
                                          "'", "hour", "'">>
                        /\ bookings' = bookings
                /\ (tc.name = "check_availability" /\ "date_str" \in tc.keys
                      /\ DateValueError(tc.date_str))
                     => /\ ToolResult = InvalidDateMsg
                        /\ bookings' = bookings
                /\ (CallsBookSlot(tc) /\ (tc.hour < 9 \/ tc.hour > 16))
                     => /\ ToolResult = InvalidHourMsg
                        /\ bookings' = bookings
                /\ (turn.pc = "insert"
                      /\ \E b \in bookings :
                            b.start_time = StartTime(tc.date_str, tc.hour))
                     => /\ ToolResult = StorageErrorMsg
                        /\ bookings' = bookings
                /\ ToolResult # <<>>
                /\ turn'.pc \in {"tools", "model"}
                /\ turn'.answer = <<>>
                /\ turn'.pending = Tail(turn.pending)
                /\ turn'.pc = "model" => turn'.submitted = turn'.round]_vars
    /\ [][turn'.raised # turn.raised => modelCalls' # modelCalls]_vars
    /\ [](turn.pc = "model" /\ turn.n > 0
            => /\ turn.pending = <<>>
               /\ turn.round # <<>>
               /\ turn.submitted = turn.round)

\* C20 witness: the insert of the Turn's book_slot call was rejected because
\* the other process had taken the hour after the Turn's lookup; the table
\* holds the other process's row only, and the model was called again with
\* the error text among the results
C20_Witness ==
    /\ turn.n >= 2
    /\ \E k \in 1..Len(turn.submitted) : turn.submitted[k] = StorageErrorMsg
    /\ bookings # {}
    /\ \A b \in bookings : b.user_name = "bob"

-----------------------------------------------------------------------------
(* SpecHistory: the stored transcript of one session and its lifetime *)

\* the variables no step of SpecHistory changes
historyFrame == <<pc, connected, new_message, current_message_buffer, tasks,
                  callbacks, sent, nrecv, sendAttempts, modelCalls, toolExecs,
                  bookings, calls, ncalls, turn, nrival, avail>>

\* The key is absent, or holds a value written `idle` seconds ago with the
\* lifetime CHAT_HISTORY_TTL.
InitHistory ==
    /\ SessionOff
    /\ bookings = {}
    /\ turn = IdleTurn
    /\ nrival = 0
    /\ avail = NoCheck
    /\ loaded = NoLoad
    /\ nhist = 0
    /\ redis \in StoredValues
    /\ idle \in {0, CHAT_HISTORY_TTL - 1}
    /\ ttl = IF redis.kind = "absent" THEN 0 ELSE CHAT_HISTORY_TTL - idle

\* agent.py:154-164: append_to_history loads, appends, and stores with setex
HistAppend(role, content) ==
    /\ nhist < MaxHist
    /\ nhist' = nhist + 1
    /\ redis' = AppendToHistory(redis, role, content)
    /\ ttl' = CHAT_HISTORY_TTL
    /\ idle' = 0
    /\ UNCHANGED <<historyFrame, loaded>>

\* a load that renews the lifetime of the key
HistLoad_touch ==
    /\ nhist < MaxHist
    /\ nhist' = nhist + 1
    /\ loaded' = [n |-> loaded.n + 1, history |-> GetConversationHistory(redis),
                  before |-> loaded.history]
    /\ ttl' = IF redis.kind = "absent" THEN 0 ELSE CHAT_HISTORY_TTL
    /\ UNCHANGED <<historyFrame, redis, idle>>

\* agent.py:117-135: get_conversation_history
HistLoad ==
    /\ nhist < MaxHist
    /\ nhist' = nhist + 1
    /\ loaded' = [n |-> loaded.n + 1, history |-> GetConversationHistory(redis),
                  before |-> loaded.history]
    /\ UNCHANGED <<historyFrame, redis, ttl, idle>>

\* d seconds pass; Redis removes the key stored by setex (agent.py:145-147)
\* when its lifetime is used up
Tick(d) ==
    /\ nhist < MaxHist
    /\ nhist' = nhist + 1
    /\ idle' = idle + d
    /\ IF redis.kind # "absent" /\ ttl <= d
       THEN /\ redis' = [kind |-> "absent", msgs |-> <<>>]
            /\ ttl' = 0
       ELSE /\ redis' = redis
            /\ ttl' = IF redis.kind = "absent" THEN 0 ELSE ttl - d
    /\ UNCHANGED <<historyFrame, loaded>>

NextHistory ==
    \/ \E role \in {"user", "model"} : HistAppend(role, <<"a">>)
    \/ HistLoad
    \/ \E d \in {1, CHAT_HISTORY_TTL - 1, CHAT_HISTORY_TTL} : Tick(d)

SpecHistory == InitHistory /\ [][NextHistory]_vars

\* the step is a save of the transcript
SaveStep == redis' # redis /\ redis'.kind = "json"

\* the step is a load of the transcript
LoadStep == loaded'.n # loaded.n

\* C17: a save sets the remaining lifetime to 24 hours; a load changes
\* neither the lifetime nor the value; a stored value has 24 hours less the
\* time since the last write left, and is gone once that time is 24 hours,
\* so a load then returns the empty history; a load of an absent or
\* undeserializable value returns the empty history
C17_SlidingExpiryOnWrites ==
    /\ [][SaveStep => ttl' = 86400 /\ idle' = 0]_vars
    /\ [][LoadStep => ttl' = ttl /\ redis' = redis /\ idle' = idle]_vars
    /\ [](redis.kind # "absent" => ttl > 0 /\ ttl = 86400 - idle)
    /\ [](idle >= 86400 => redis.kind = "absent")
    /\ [][(LoadStep /\ idle >= 86400) => loaded'.history = <<>>]_vars
    /\ [][(LoadStep /\ redis.kind \in {"absent", "corrupt"})
            => loaded'.history = <<>>]_vars
    /\ [][(LoadStep /\ redis.kind = "json") => loaded'.history = redis.msgs]_vars

\* C17 witness: a message was saved and a load returned it; 24 hours passed
\* without a write, and the next load returned the empty history
C17_Witness ==
    /\ loaded.n = 2
    /\ loaded.before # <<>>
    /\ loaded.before[Len(loaded.before)].content = <<"a">>
    /\ loaded.history = <<>>
    /\ idle >= 86400
    /\ redis.kind = "absent"

====
